---- MODULE Spec2Model ----
(***************************************************************************)
(* Model of the puzzlebox dungeon generator (src/index.ts): the State      *)
(* class, the Enclave class, the Graph class with its reachability search, *)
(* the randomized builder buildDungeon and the entry point main.           *)
(*                                                                         *)
(* A State is modelled by its vars array (a sequence of StateVar records), *)
(* an Enclave by a record holding its mechanism, the Graph by the two      *)
(* sequences nodes and edges.  Math.random() is a nondeterministic choice. *)
(***************************************************************************)
EXTENDS Integers, Sequences, FiniteSets, TLC

\* Longest variable list of a request explored by Spec.
MaxVars == 4
\* Largest cardinality of a reversible variable in a request.
MaxStates == 2

VARIABLES
    argc,           \* process.argv.length
    argv,           \* process.argv[2] split at ":", each token a sequence of characters
    pc,             \* position of the program
    initialState,   \* the State main hands to buildDungeon
    nodes,          \* graph.nodes
    edges,          \* graph.edges
    currentState,   \* buildDungeon: currentState
    currentEnclave, \* buildDungeon: currentEnclave
    a,              \* buildDungeon: index of the outer loop
    anchor,         \* buildDungeon: anchor of the running place step
    mutables,       \* buildDungeon: mutables of the running place step
    numChanges,     \* buildDungeon: numChanges of the running place step
    conditions,     \* buildDungeon: conditions of the running place step
    b,              \* buildDungeon: index of the inner loop
    unused,         \* main: what getUnusedStateVars returned
    start,          \* getAccessibleEnclaves: start
    adjacent,       \* getAccessibleEnclaves: adjacent
    visited,        \* getAccessibleEnclaves: visited
    given,          \* State: the arguments of the last new State(...)
    made,           \* State: the State objects constructed so far
    out             \* State: what the last operation on them returned

vars == <<argc, argv, pc, initialState, nodes, edges, currentState, currentEnclave,
          a, anchor, mutables, numChanges, conditions, b, unused,
          start, adjacent, visited, given, made, out>>

buildVars == <<currentState, currentEnclave, a, anchor, mutables, numChanges,
               conditions, b>>
searchVars == <<start, adjacent, visited>>
stateVars == <<given, made, out>>

----------------------------------------------------------------------------
(* Helpers on sequences *)

Range(s) == {s[i] : i \in 1..Len(s)}

Min(S) == CHOOSE x \in S : \A y \in S : x <= y

\* the splice forgotten
RemoveNothing(s, x) == s

\* a.indexOf(x) followed by a.splice(index, 1), for an x that occurs in a
RemoveFirst(s, x) ==
    LET i == Min({j \in 1..Len(s) : s[j] = x})
    IN  SubSeq(s, 1, i - 1) \o SubSeq(s, i + 1, Len(s))

\* Math.floor(Math.random() * n): every value the expression can take
RandomBelow(n) ==
    IF n > 0 THEN 0..(n - 1) ELSE n..0

----------------------------------------------------------------------------
(* class State *)

\* the constructor keeping the position of the last occurrence of an id
PutLast(acc, x) ==
    Append(SelectSeq(acc, LAMBDA y : y.id # x.id), x)

\* the constructor keeping the value of the first occurrence of an id
PutKeep(acc, x) ==
    IF \E i \in 1..Len(acc) : acc[i].id = x.id THEN acc ELSE Append(acc, x)

Put(acc, x) ==
    LET hit == {i \in 1..Len(acc) : acc[i].id = x.id}
    IN  IF hit = {} THEN Append(acc, x)
        ELSE [acc EXCEPT ![Min(hit)].value = x.value]

RECURSIVE PutAll(_, _, _)
PutAll(acc, xs, i) ==
    IF i > Len(xs) THEN acc ELSE PutAll(Put(acc, xs[i]), xs, i + 1)

\* new State(...xs): first-seen position, last-seen value per id
NewState(xs) == PutAll(<<>>, xs, 1)

\* relevant keeping only the variables above 0
relevantChanged(s) == NewState(SelectSeq(s, LAMBDA x : x.value > 0))

\* relevant keeping only the variables that are reversible and above 0
relevantBoth(s) ==
    NewState(SelectSeq(s, LAMBDA x : x.reversible /\ x.value > 0))

relevant(s) == NewState(SelectSeq(s, LAMBDA x : x.reversible \/ x.value > 0))

\* the index of the variable vars.find((y) => y.id === id) returns, 0 for undefined
FindIndex(s, id) ==
    LET hit == {j \in 1..Len(s) : s[j].id = id}
    IN  IF hit = {} THEN 0 ELSE Min(hit)

\* satisfies comparing the variables position by position
satisfiesByPosition(s, t) ==
    \A i \in 1..Len(t) :
        i <= Len(s) /\ s[i].id = t[i].id /\ s[i].value = t[i].value

satisfies(s, t) ==
    \A i \in 1..Len(t) :
        LET j == FindIndex(s, t[i].id)
        IN  j # 0 /\ s[j].value = t[i].value

equals(s, t) ==
    /\ Len(s) = Len(t)
    /\ \A i \in 1..Len(s) :
          \E j \in 1..Len(t) : t[j].id = s[i].id /\ t[j].value = s[i].value

----------------------------------------------------------------------------
(* class Enclave *)

Enclave(sv) == [mechanism |-> sv]

mutable(e) == e.mechanism.reversible \/ e.mechanism.value = 0

EnclaveEquals(e, f) == e.mechanism.id = f.mechanism.id

\* Every StateVar activated(currentState) can return
activated(e, cs) ==
    IF e.mechanism.reversible
    THEN LET current == cs[FindIndex(cs, e.mechanism.id)].value
         IN  {[e.mechanism EXCEPT !.value = IF v >= current THEN v + 1 ELSE v] :
                 v \in RandomBelow(e.mechanism.states - 1)}
    ELSE {[e.mechanism EXCEPT !.value = v + 1] :
             v \in RandomBelow(e.mechanism.states - 1)}

----------------------------------------------------------------------------
(* getAlternates and class Graph *)

getAlternates(sv) ==
    IF sv.reversible
    THEN [i \in 1..sv.states |-> [sv EXCEPT !.value = i - 1]]
    ELSE IF sv.value = 0 THEN <<sv, [sv EXCEPT !.value = 1]>> ELSE <<sv>>

\* addEdge recording the doorway in one direction only
addEdgeOneWay(es, src, dst, label) ==
    Append(es, [src |-> src, dst |-> dst, label |-> label])

addEdge(es, src, dst, label) ==
    es \o << [src |-> src, dst |-> dst, label |-> label],
             [src |-> dst, dst |-> src, label |-> label] >>

\* the alternates of the popped root (lines 153-158)
Alternates(root) ==
    LET alts == getAlternates(root.enclave.mechanism)
    IN  [i \in 1..Len(alts) |->
            [enclave |-> root.enclave,
             state |-> NewState(Append(root.state, alts[i]))]]

\* the pairs behind the doorways one alternate can cross (lines 160-172)
Transformed(es, current) ==
    LET neighbors == SelectSeq(es, LAMBDA x :
                        EnclaveEquals(x.src, current.enclave)
                        /\ satisfies(current.state, x.label))
    IN  [i \in 1..Len(neighbors) |->
            [state |-> NewState(current.state \o neighbors[i].label),
             enclave |-> neighbors[i].dst]]

RECURSIVE Flatten(_, _)
Flatten(ss, i) == IF i > Len(ss) THEN <<>> ELSE ss[i] \o Flatten(ss, i + 1)

\* the visited test with the states left out of the comparison
SeenEnclave(vis, t) ==
    \E i \in 1..Len(vis) : EnclaveEquals(t.enclave, vis[i].enclave)

\* the visited test by object identity: a pair just created is no element of visited
SeenReference(vis, t) == FALSE

\* the visited test of lines 173-179
Seen(vis, t) ==
    \E i \in 1..Len(vis) :
        EnclaveEquals(t.enclave, vis[i].enclave) /\ equals(t.state, vis[i].state)

RECURSIVE PushNew(_, _, _)
PushNew(cands, i, av) ==
    IF i > Len(cands) THEN av
    ELSE IF Seen(av.visited, cands[i])
         THEN PushNew(cands, i + 1, av)
         ELSE PushNew(cands, i + 1,
                      [adjacent |-> Append(av.adjacent, cands[i]),
                       visited |-> Append(av.visited, cands[i])])

\* one turn of the while loop of getAccessibleEnclaves (lines 152-184)
SearchIter(es, av) ==
    LET n == Len(av.adjacent)
        root == av.adjacent[n]
        alts == Alternates(root)
        cands == Flatten([i \in 1..Len(alts) |-> Transformed(es, alts[i])], 1)
    IN  PushNew(cands, 1, [adjacent |-> SubSeq(av.adjacent, 1, n - 1),
                           visited |-> av.visited])

RECURSIVE SearchLoop(_, _)
SearchLoop(es, av) ==
    IF Len(av.adjacent) > 0 THEN SearchLoop(es, SearchIter(es, av)) ELSE av.visited

getAccessibleEnclaves(es, st) ==
    SearchLoop(es, [adjacent |-> <<st>>, visited |-> <<st>>])

\* getStatesFromPath with the filter inverted
getStatesFromPathOther(es, initial, src, dst) ==
    LET hits == SelectSeq(getAccessibleEnclaves(es, [state |-> initial, enclave |-> src]),
                          LAMBDA x : ~EnclaveEquals(x.enclave, dst))
    IN  [i \in 1..Len(hits) |-> hits[i].state]

getStatesFromPath(es, initial, src, dst) ==
    LET hits == SelectSeq(getAccessibleEnclaves(es, [state |-> initial, enclave |-> src]),
                          LAMBDA x : EnclaveEquals(x.enclave, dst))
    IN  [i \in 1..Len(hits) |-> hits[i].state]

\* getUnusedStateVars with the negation of the filter lost
getUnusedStateVarsUsed(ns, es) ==
    SelectSeq([i \in 1..Len(ns) |-> ns[i].mechanism],
              LAMBDA x : \E i \in 1..Len(es) :
                             \E j \in 1..Len(es[i].label) : x.id = es[i].label[j].id)

getUnusedStateVars(ns, es) ==
    SelectSeq([i \in 1..Len(ns) |-> ns[i].mechanism],
              LAMBDA x : ~ \E i \in 1..Len(es) :
                             \E j \in 1..Len(es[i].label) : x.id = es[i].label[j].id)

----------------------------------------------------------------------------
(* main: the command line *)

\* String.fromCharCode(c) for the codes main can produce on the requests explored
CharTable ==
    << "A", "B", "C", "D", "E", "F", "G", "H", "I", "J", "K", "L", "M", "N",
       "O", "P", "Q", "R", "S", "T", "U", "V", "W", "X", "Y", "Z", "[", "bs",
       "]", "^" >>

fromCharCode(c) == CharTable[c - 64]

DigitChars == << "0", "1", "2", "3", "4", "5", "6", "7", "8", "9" >>

IsDigit(ch) == \E d \in 1..Len(DigitChars) : DigitChars[d] = ch

DigitValue(ch) == (CHOOSE d \in 1..Len(DigitChars) : DigitChars[d] = ch) - 1

\* parseInt of a string of decimal digits
RECURSIVE parseInt(_)
parseInt(ds) ==
    IF Len(ds) = 0 THEN 0
    ELSE parseInt(SubSeq(ds, 1, Len(ds) - 1)) * 10 + DigitValue(ds[Len(ds)])

\* one token against b|(r[0-9]+)
TokenMatches(t) ==
    \/ t = << "b" >>
    \/ /\ Len(t) >= 2
       /\ t[1] = "r"
       /\ \A i \in 2..Len(t) : IsDigit(t[i])

\* process.argv[2].match(/^(b|(r[0-9]+))(:(b|(r[0-9]+)))*$/)
Matches(tokens) ==
    /\ Len(tokens) >= 1
    /\ \A i \in 1..Len(tokens) : TokenMatches(tokens[i])

\* the StateVar main builds from token x at index i (lines 308-313)
Descriptor(x, i) ==
    [reversible |-> (x[1] = "r"),
     id |-> fromCharCode(65 + i),
     states |-> IF x[1] = "b" THEN 2 ELSE parseInt(SubSeq(x, 2, Len(x))),
     value |-> 0]

----------------------------------------------------------------------------
(* The requests explored *)

Tokens ==
    { << "b" >>, << "i", "2" >>, << "r" >> }
    \cup { << "r", DigitChars[n + 1] >> : n \in 2..MaxStates }

Requests == UNION { [1..n -> Tokens] : n \in 1..MaxVars }

\* no operation applied yet
NoResult == [op |-> "none"]

NoPair == [enclave |-> Enclave([id |-> "", states |-> 0, value |-> 0,
                                reversible |-> FALSE]),
           state |-> <<>>]

Init ==
    /\ \/ argc \in {2, 4} /\ argv = <<>>
       \/ argc = 3 /\ argv \in Requests
    /\ pc = "main"
    /\ initialState = <<>>
    /\ nodes = <<>>
    /\ edges = <<>>
    /\ currentState = <<>>
    /\ currentEnclave = NoPair.enclave
    /\ a = 0
    /\ anchor = NoPair.enclave
    /\ mutables = <<>>
    /\ numChanges = 0
    /\ conditions = <<>>
    /\ b = 0
    /\ unused = <<>>
    /\ start = NoPair
    /\ adjacent = <<>>
    /\ visited = <<>>
    /\ given = <<>>
    /\ made = <<>>
    /\ out = NoResult

\* main, lines 286-304: the usage message and exit(1)
Usage ==
    /\ pc = "main"
    /\ (argc # 3 \/ ~Matches(argv))
    /\ pc' = "exit1"
    /\ UNCHANGED <<argc, argv, initialState, nodes, edges, unused>>
    /\ UNCHANGED buildVars
    /\ UNCHANGED searchVars
    /\ UNCHANGED stateVars

\* main, lines 306-315: the State handed to buildDungeon
Main ==
    /\ pc = "main"
    /\ ~(argc # 3 \/ ~Matches(argv))
    /\ initialState' = NewState([i \in 1..Len(argv) |-> Descriptor(argv[i], i - 1)])
    /\ pc' = "build"
    /\ UNCHANGED <<argc, argv, nodes, edges, unused>>
    /\ UNCHANGED buildVars
    /\ UNCHANGED searchVars
    /\ UNCHANGED stateVars

----------------------------------------------------------------------------
(* buildDungeon *)

\* buildDungeon with the outer loop started at 0
BeginAtZero ==
    /\ pc = "build"
    /\ nodes' = << Enclave(initialState[1]) >>
    /\ edges' = <<>>
    /\ currentState' = initialState
    /\ currentEnclave' = Enclave(initialState[1])
    /\ a' = 0
    /\ pc' = "loop"
    /\ UNCHANGED <<argc, argv, initialState, unused, anchor, mutables, numChanges,
                   conditions, b>>
    /\ UNCHANGED searchVars
    /\ UNCHANGED stateVars

\* lines 238-241
Begin ==
    /\ pc = "build"
    /\ nodes' = << Enclave(initialState[1]) >>
    /\ edges' = <<>>
    /\ currentState' = initialState
    /\ currentEnclave' = Enclave(initialState[1])
    /\ a' = 1
    /\ pc' = "loop"
    /\ UNCHANGED <<argc, argv, initialState, unused, anchor, mutables, numChanges,
                   conditions, b>>
    /\ UNCHANGED searchVars
    /\ UNCHANGED stateVars

\* the start of a place step drawing the count from 1 to one above the
\* number of candidates
PlaceWholeCount ==
    /\ pc = "loop"
    /\ a < Len(initialState)
    /\ \E i \in {r + 1 : r \in RandomBelow(Len(nodes))} : anchor' = nodes[i]
    /\ mutables' = SelectSeq(nodes, mutable)
    /\ \E r \in RandomBelow(Len(SelectSeq(nodes, mutable)) + 1) : numChanges' = r + 1
    /\ conditions' = <<>>
    /\ b' = 0
    /\ pc' = "inner"
    /\ UNCHANGED <<argc, argv, initialState, nodes, edges, unused, currentState,
                   currentEnclave, a>>
    /\ UNCHANGED searchVars
    /\ UNCHANGED stateVars

\* lines 242-249: the head of a place step
Place ==
    /\ pc = "loop"
    /\ a < Len(initialState)
    /\ \E i \in {r + 1 : r \in RandomBelow(Len(nodes))} : anchor' = nodes[i]
    /\ mutables' = SelectSeq(nodes, mutable)
    /\ \E r \in RandomBelow(Len(SelectSeq(nodes, mutable)) - 1) : numChanges' = r + 1
    /\ conditions' = <<>>
    /\ b' = 0
    /\ pc' = "inner"
    /\ UNCHANGED <<argc, argv, initialState, nodes, edges, unused, currentState,
                   currentEnclave, a>>
    /\ UNCHANGED searchVars
    /\ UNCHANGED stateVars

\* lines 250-267: one intermediate of a place step
Intermediate ==
    /\ pc = "inner"
    /\ b < numChanges
    /\ \E k \in {r + 1 : r \in RandomBelow(Len(mutables))} :
          LET diff == mutables[k]
              states == getStatesFromPath(edges, currentState, currentEnclave, diff)
          IN  /\ mutables' = RemoveFirst(mutables, diff)
              /\ edges' = IF Len(states) > 0 THEN edges
                          ELSE addEdge(edges, currentEnclave, diff, relevant(currentState))
              /\ \E cs \in (IF Len(states) > 0 THEN Range(states) ELSE {currentState}) :
                    \E act \in activated(diff, cs) :
                        /\ conditions' = Append(conditions, act)
                        /\ currentState' = NewState(Append(cs, act))
              /\ currentEnclave' = diff
    /\ b' = b + 1
    /\ UNCHANGED <<argc, argv, pc, initialState, nodes, unused, a, anchor, numChanges>>
    /\ UNCHANGED searchVars
    /\ UNCHANGED stateVars

\* lines 268-277: the end of a place step
Connect ==
    /\ pc = "inner"
    /\ ~(b < numChanges)
    /\ LET enclave == Enclave(initialState[a + 1])
           es == IF Len(getStatesFromPath(edges, currentState, currentEnclave, anchor)) = 0
                 THEN addEdge(edges, currentEnclave, anchor, relevant(currentState))
                 ELSE edges
       IN  /\ nodes' = Append(nodes, enclave)
           /\ edges' = addEdge(es, anchor, enclave, NewState(conditions))
           /\ currentState' = NewState(currentState \o conditions)
           /\ currentEnclave' = enclave
    /\ a' = a + 1
    /\ pc' = "loop"
    /\ UNCHANGED <<argc, argv, initialState, unused, anchor, mutables, numChanges,
                   conditions, b>>
    /\ UNCHANGED searchVars
    /\ UNCHANGED stateVars

\* line 279: return graph
Return ==
    /\ pc = "loop"
    /\ ~(a < Len(initialState))
    /\ pc' = "built"
    /\ UNCHANGED <<argc, argv, initialState, nodes, edges, unused>>
    /\ UNCHANGED buildVars
    /\ UNCHANGED searchVars
    /\ UNCHANGED stateVars

\* main, lines 316-325: the report of the unused variables
Report ==
    /\ pc = "built"
    /\ unused' = getUnusedStateVars(nodes, edges)
    /\ pc' = "exit0"
    /\ UNCHANGED <<argc, argv, initialState, nodes, edges>>
    /\ UNCHANGED buildVars
    /\ UNCHANGED searchVars
    /\ UNCHANGED stateVars

Next ==
    \/ Usage
    \/ Main
    \/ Begin
    \/ Place
    \/ Intermediate
    \/ Connect
    \/ Return
    \/ Report

Spec == Init /\ [][Next]_vars

----------------------------------------------------------------------------
(* getAccessibleEnclaves run turn by turn on the graphs of SearchInit *)

\* Longest variable list of a graph explored by SearchSpec.
SearchVars == 2
\* Most doorways (addEdge calls) of a graph explored by SearchSpec.
MaxDoorways == 2

ValidTokens == {t \in Tokens : TokenMatches(t)}

SearchRequests == UNION { [1..n -> ValidTokens] : n \in 1..SearchVars }

\* every State that gives each variable of vs a value of its range
FullStates(vs) ==
    {[i \in 1..Len(vs) |-> [vs[i] EXCEPT !.value = f[i]]] :
        f \in {g \in [1..Len(vs) -> 0..(MaxStates - 1)] :
                  \A i \in 1..Len(vs) : g[i] < vs[i].states}}

\* every State over a subset of the variables of vs: the labels a doorway can carry
Labels(vs) ==
    UNION { {SelectSeq(st, LAMBDA x : x.id \in ids) : st \in FullStates(vs)} :
              ids \in SUBSET {vs[i].id : i \in 1..Len(vs)} }

Doorways(vs) ==
    [src : {Enclave(vs[i]) : i \in 1..Len(vs)},
     dst : {Enclave(vs[i]) : i \in 1..Len(vs)},
     label : Labels(vs)]

\* a Graph over the variables of a request, no doorway added yet
SearchInit ==
    /\ argc = 3
    /\ argv \in SearchRequests
    /\ initialState = NewState([i \in 1..Len(argv) |-> Descriptor(argv[i], i - 1)])
    /\ nodes = [i \in 1..Len(initialState) |-> Enclave(initialState[i])]
    /\ edges = <<>>
    /\ start = NoPair
    /\ adjacent = <<>>
    /\ visited = <<>>
    /\ pc = "graph"
    /\ currentState = <<>>
    /\ currentEnclave = NoPair.enclave
    /\ a = 0
    /\ anchor = NoPair.enclave
    /\ mutables = <<>>
    /\ numChanges = 0
    /\ conditions = <<>>
    /\ b = 0
    /\ unused = <<>>
    /\ given = <<>>
    /\ made = <<>>
    /\ out = NoResult

\* lines 140-143: a call of addEdge
AddDoorway ==
    /\ pc = "graph"
    /\ Len(edges) < 2 * MaxDoorways
    /\ \E d \in Doorways(initialState) : edges' = addEdge(edges, d.src, d.dst, d.label)
    /\ UNCHANGED <<argc, argv, pc, initialState, nodes, unused>>
    /\ UNCHANGED buildVars
    /\ UNCHANGED searchVars
    /\ UNCHANGED stateVars

\* lines 148-150: a call of getAccessibleEnclaves
SearchCall ==
    /\ pc = "graph"
    /\ \E e \in Range(nodes), st \in FullStates(initialState) :
          /\ start' = [enclave |-> e, state |-> st]
          /\ adjacent' = << [enclave |-> e, state |-> st] >>
          /\ visited' = << [enclave |-> e, state |-> st] >>
    /\ pc' = "search"
    /\ UNCHANGED <<argc, argv, initialState, nodes, edges, unused>>
    /\ UNCHANGED buildVars
    /\ UNCHANGED stateVars

\* lines 151-185: one turn of the while loop
SearchTurn ==
    /\ pc = "search"
    /\ Len(adjacent) > 0
    /\ LET av == SearchIter(edges, [adjacent |-> adjacent, visited |-> visited])
       IN  adjacent' = av.adjacent /\ visited' = av.visited
    /\ UNCHANGED <<argc, argv, pc, initialState, nodes, edges, unused, start>>
    /\ UNCHANGED buildVars
    /\ UNCHANGED stateVars

\* line 186: return visited
SearchReturn ==
    /\ pc = "search"
    /\ ~(Len(adjacent) > 0)
    /\ pc' = "found"
    /\ UNCHANGED <<argc, argv, initialState, nodes, edges, unused>>
    /\ UNCHANGED buildVars
    /\ UNCHANGED searchVars
    /\ UNCHANGED stateVars

SearchNext ==
    \/ AddDoorway
    \/ SearchCall
    \/ SearchTurn
    \/ SearchReturn

SearchSpec == SearchInit /\ [][SearchNext]_vars

----------------------------------------------------------------------------
(* The search against the move relation it is meant to close *)

\* a State as the set of its (id, value) assignments
Assignments(st) == {<<st[i].id, st[i].value>> : i \in 1..Len(st)}

Position(p) == <<p.enclave.mechanism.id, Assignments(p.state)>>

MechanismOf(id) == (CHOOSE e \in Range(nodes) : e.mechanism.id = id).mechanism

\* assignments S overridden by assignments T
Override(S, T) == {x \in S : \A y \in T : y[1] # x[1]} \cup T

\* activate the mechanism of the enclave, then cross one doorway the result satisfies
Moves(pos) ==
    UNION { { <<d.dst.mechanism.id, Override(S1, Assignments(d.label))>> :
                d \in {e \in Range(edges) :
                          /\ e.src.mechanism.id = pos[1]
                          /\ Assignments(e.label) \subseteq S1} } :
            S1 \in { Override(pos[2], {<<pos[1], alt.value>>}) :
                       alt \in Range(getAlternates(MechanismOf(pos[1]))) } }

RECURSIVE Closure(_)
Closure(P) ==
    LET Q == P \cup UNION {Moves(pos) : pos \in P}
    IN  IF Q = P THEN P ELSE Closure(Q)

LeastClosed(from) == Closure({Position(from)})

\* C5: getAccessibleEnclaves returns exactly the least set that contains the
\* start pair and is closed under activate-then-cross, whatever the order the
\* frontier is explored in.
SearchIsLeastClosedSet ==
    pc = "found" =>
        /\ {Position(p) : p \in Range(visited)} = LeastClosed(start)
        /\ visited = getAccessibleEnclaves(edges, start)

\* a search that went through a doorway and came back by its mirror
SearchCrossedBack ==
    /\ pc = "found"
    /\ Len(visited) >= 4
    /\ \E i \in 2..Len(visited) : EnclaveEquals(visited[i].enclave, start.enclave)

NoPairTwice(vis) ==
    \A i, j \in 1..Len(vis) :
        i # j => ~(EnclaveEquals(vis[i].enclave, vis[j].enclave)
                   /\ equals(vis[i].state, vis[j].state))

RECURSIVE Product(_, _)
Product(vs, i) == IF i > Len(vs) THEN 1 ELSE vs[i].states * Product(vs, i + 1)

ProductSpace == Len(nodes) * Product(initialState, 1)

\* the turns of the while loop taken so far: a pair is pushed on adjacent only
\* together with visited, and every turn pops one pair
Turns == Len(visited) - Len(adjacent)

\* C6: getAccessibleEnclaves terminates, also on graphs with cycles: visited
\* never holds a pair twice and is no longer than enclave count x product of
\* the cardinalities, every turn of the loop uses up one visited pair, so the
\* frontier is empty after at most that many turns.
SearchTerminates ==
    /\ [](pc \in {"search", "found"} =>
            /\ NoPairTwice(visited)
            /\ Len(visited) <= ProductSpace
            /\ Turns >= 0 /\ Turns <= Len(visited)
            /\ (pc = "found" => adjacent = <<>>))
    /\ [][(pc = "search" /\ pc' = "search") => Turns' = Turns + 1]_vars

\* a search on a cyclic graph that visited the whole product space
SearchFilledProductSpace ==
    /\ pc = "found"
    /\ Len(nodes) = 2
    /\ Len(visited) = ProductSpace

----------------------------------------------------------------------------
(* Solvability of the graph the builder holds *)

\* the pair the player starts from: the first enclave and the all-zero state
FirstPair == [enclave |-> nodes[1], state |-> initialState]

StepDone == pc \in {"loop", "built"}

ReachesEnclave(from, e) ==
    \E p \in Range(getAccessibleEnclaves(edges, from)) : EnclaveEquals(p.enclave, e)

\* C1: after every place step every enclave of graph.nodes occurs in
\* getAccessibleEnclaves started from (first enclave, initial all-zero state).
AllEnclavesAccessible ==
    StepDone => \A i \in 1..Len(nodes) : ReachesEnclave(FirstPair, nodes[i])

\* C2: in the returned graph every doorway (E1, E2, label) has a pair (E1, S)
\* accessible from the start such that S, after at most one activation of
\* E1's mechanism, satisfies label.
EveryDoorwayCrossable ==
    pc = "built" =>
        \A i \in 1..Len(edges) :
            \E p \in Range(getAccessibleEnclaves(edges, FirstPair)) :
                /\ EnclaveEquals(p.enclave, edges[i].src)
                /\ \/ satisfies(p.state, edges[i].label)
                   \/ \E q \in Range(Alternates(p)) : satisfies(q.state, edges[i].label)

\* C3: no softlock: in the returned graph every enclave is still accessible
\* from every pair accessible from the start.
NoSoftlock ==
    pc = "built" =>
        \A p \in Range(getAccessibleEnclaves(edges, FirstPair)) :
            \A i \in 1..Len(nodes) : ReachesEnclave(p, nodes[i])

----------------------------------------------------------------------------
(* The place steps of buildDungeon *)

CurrentPair == [enclave |-> currentEnclave, state |-> currentState]

\* C4: a doorway from currentEnclave to an intermediate (step 4c) or to the
\* anchor (step 5) is committed only if getAccessibleEnclaves from
\* (currentEnclave, currentState) holds no pair at that target in the graph of
\* that moment; when the target is accessible no such doorway is added.
DoorwayOnlyWhenInaccessible ==
    [][ /\ (pc = "inner" /\ b < numChanges) =>
             IF ReachesEnclave(CurrentPair, currentEnclave')
             THEN edges' = edges
             ELSE /\ Len(edges') = Len(edges) + 2
                  /\ SubSeq(edges', 1, Len(edges)) = edges
                  /\ edges'[Len(edges) + 1].src = currentEnclave
                  /\ edges'[Len(edges) + 1].dst = currentEnclave'
        /\ (pc = "inner" /\ ~(b < numChanges)) =>
             IF ReachesEnclave(CurrentPair, anchor)
             THEN /\ Len(edges') = Len(edges) + 2
                  /\ edges'[Len(edges) + 1].src = anchor
                  /\ edges'[Len(edges) + 1].dst = nodes'[Len(nodes')]
             ELSE /\ Len(edges') = Len(edges) + 4
                  /\ SubSeq(edges', 1, Len(edges)) = edges
                  /\ edges'[Len(edges) + 1].src = currentEnclave
                  /\ edges'[Len(edges) + 1].dst = anchor
      ]_vars

\* a graph that holds a doorway of step 4c or 5 beside the gates of the new enclaves
DoorwayWasCommitted ==
    /\ pc \in {"inner", "loop"}
    /\ Len(edges) > 2 * (Len(nodes) - 1)

\* C7: for n requested variables buildDungeon ends after n-1 place steps with
\* n enclaves, the i-th tied to the i-th variable, each step adding exactly one
\* enclave; a single variable gives 1 enclave and 0 doorways.
OneEnclavePerVariable ==
    /\ pc \in {"loop", "inner", "built", "exit0"} =>
          /\ Len(nodes) = a
          /\ \A i \in 1..Len(nodes) : nodes[i].mechanism = initialState[i]
    /\ pc \in {"built", "exit0"} =>
          /\ Len(nodes) = Len(argv)
          /\ a - 1 = Len(argv) - 1
          /\ Len(argv) = 1 => edges = <<>>

BuiltFromOneVariable == pc = "built" /\ Len(argv) = 1

BuiltFromLongestRequest == pc = "built" /\ Len(argv) = MaxVars /\ Len(nodes) = MaxVars

\* the enclaves a place step has taken out of mutables so far
Intermediates == Range(SelectSeq(nodes, mutable)) \ Range(mutables)

\* C8: the doorway a place step commits from the anchor to the new enclave V
\* has a non-empty label whose variables are exactly the mechanisms of the
\* intermediates activated in that step, each with the value its activation
\* produced; no doorway at V is unconditional.
GateLabelIsTheActivations ==
    [][ /\ (pc = "inner" /\ pc' = "inner") =>
             LET act == conditions'[Len(conditions')]
             IN  /\ conditions' = Append(conditions, act)
                 /\ Intermediates' = Intermediates \cup {currentEnclave'}
                 /\ currentEnclave' \notin Intermediates
                 /\ act.id = currentEnclave'.mechanism.id
                 /\ act.value = currentState'[FindIndex(currentState', act.id)].value
        /\ (pc = "inner" /\ pc' = "loop") =>
          LET gate == edges'[Len(edges') - 1]
              V == nodes'[Len(nodes')]
          IN  /\ gate.src = anchor /\ gate.dst = V
              /\ Len(gate.label) > 0
              /\ Len(gate.label) = Len(conditions)
              /\ {x.id : x \in Range(gate.label)} = {e.mechanism.id : e \in Intermediates}
              /\ Assignments(gate.label) = Assignments(conditions)
              /\ \A i \in 1..Len(edges') :
                    (edges'[i].src = V \/ edges'[i].dst = V) => Len(edges'[i].label) > 0
        /\ \A i \in 1..Len(edges') : Len(edges'[i].label) > 0
      ]_vars

\* a gate whose label holds the activations of two intermediates
GateBehindTwoActivations ==
    /\ pc = "loop"
    /\ Len(edges) >= 2
    /\ Len(edges[Len(edges)].label) = 2
    /\ edges[Len(edges)].src = nodes[Len(nodes)]

\* the ids the labels of the committed doorways mention
MentionedIds == UNION {{x.id : x \in Range(edges[i].label)} : i \in 1..Len(edges)}

\* C9: getUnusedStateVars returns exactly the mechanisms of the enclaves whose
\* id occurs in the label of no committed doorway, and leaves nodes and edges
\* unchanged.
UnusedAreTheUnmentioned ==
    [][ (pc = "built" /\ pc' = "exit0") =>
          /\ nodes' = nodes
          /\ edges' = edges
          /\ \A i \in 1..Len(nodes) :
                (nodes[i].mechanism \in Range(unused')) <=>
                    (nodes[i].mechanism.id \notin MentionedIds)
          /\ Range(unused') \subseteq {nodes[i].mechanism : i \in 1..Len(nodes)}
      ]_vars

\* a report that names some enclaves and not others
SomeUnusedSomeUsed ==
    /\ pc = "exit0"
    /\ Len(unused) > 0
    /\ Len(unused) < Len(nodes)

----------------------------------------------------------------------------
(* The variable count of a request *)

\* Longest variable list of a request explored by CapSpec.
LongRequest == 27

CapRequests == { [i \in 1..n |-> t] : n \in 1..LongRequest, t \in Tokens }

CapInit ==
    /\ \/ argc \in {2, 4} /\ argv = <<>>
       \/ argc = 3 /\ argv \in CapRequests
    /\ pc = "main"
    /\ initialState = <<>>
    /\ nodes = <<>>
    /\ edges = <<>>
    /\ currentState = <<>>
    /\ currentEnclave = NoPair.enclave
    /\ a = 0
    /\ anchor = NoPair.enclave
    /\ mutables = <<>>
    /\ numChanges = 0
    /\ conditions = <<>>
    /\ b = 0
    /\ unused = <<>>
    /\ start = NoPair
    /\ adjacent = <<>>
    /\ visited = <<>>
    /\ given = <<>>
    /\ made = <<>>
    /\ out = NoResult

CapNext ==
    \/ Usage
    \/ Main
    \/ Begin

\* main up to the first enclave of buildDungeon
CapSpec == CapInit /\ [][CapNext]_vars

\* C10: a request with more than 26 variables is rejected before buildDungeon
\* runs: no State is handed over and no enclave is created.
OverlongRequestRejected ==
    Len(argv) > 26 =>
        /\ pc \in {"main", "exit1"}
        /\ initialState = <<>>
        /\ nodes = <<>>

----------------------------------------------------------------------------
\* The State class on its own: States are constructed from argument lists,
\* then merged, filtered and compared as buildDungeon and
\* getAccessibleEnclaves do.

\* the longest argument list handed to new State(...)
MaxEntries == 3

\* one reversible and one irreversible variable
PoolVars == <<Descriptor(<<"r", DigitChars[MaxStates + 1]>>, 0),
               Descriptor(<<"b">>, 1)>>

\* a variable of vs at any of its values
Entries(vs) ==
    {[vs[i] EXCEPT !.value = v] :
        <<i, v>> \in {<<j, w>> \in (1..Len(vs)) \X (0..(MaxStates - 1)) :
                        w < vs[j].states}}

ArgLists == UNION {[1..n -> Entries(PoolVars)] : n \in 1..MaxEntries}

StateInit ==
    /\ argc = 3
    /\ argv = <<>>
    /\ pc = "state"
    /\ initialState = PoolVars
    /\ nodes = <<>>
    /\ edges = <<>>
    /\ currentState = <<>>
    /\ currentEnclave = NoPair.enclave
    /\ a = 0
    /\ anchor = NoPair.enclave
    /\ mutables = <<>>
    /\ numChanges = 0
    /\ conditions = <<>>
    /\ b = 0
    /\ unused = <<>>
    /\ start = NoPair
    /\ adjacent = <<>>
    /\ visited = <<>>
    /\ given = <<>>
    /\ made = <<>>
    /\ out = NoResult

\* new State(...xs)
Construct ==
    /\ pc = "state"
    /\ Len(made) < 3
    /\ \E xs \in ArgLists :
        /\ given' = xs
        /\ made' = Append(made, NewState(xs))
    /\ UNCHANGED <<argc, argv, pc, initialState, nodes, edges, unused, out>>
    /\ UNCHANGED buildVars
    /\ UNCHANGED searchVars

\* new State(...s.vars, ...t.vars) of three States, in both groupings
Merge ==
    /\ pc = "state"
    /\ Len(made) = 3
    /\ LET ab == NewState(made[1] \o made[2])
           bc == NewState(made[2] \o made[3])
           left == NewState(ab \o made[3])
           right == NewState(made[1] \o bc)
       IN  out' = [op |-> "merge", ab |-> ab, left |-> left, right |-> right,
                   same |-> equals(left, right) /\ equals(right, left)]
    /\ pc' = "applied"
    /\ UNCHANGED <<argc, argv, initialState, nodes, edges, unused, given, made>>
    /\ UNCHANGED buildVars
    /\ UNCHANGED searchVars

\* s.relevant() and s.relevant().relevant() of the last State
Relevant ==
    /\ pc = "state"
    /\ Len(made) > 0
    /\ out' = [op |-> "relevant",
               once |-> relevant(made[Len(made)]),
               twice |-> relevant(relevant(made[Len(made)]))]
    /\ pc' = "applied"
    /\ UNCHANGED <<argc, argv, initialState, nodes, edges, unused, given, made>>
    /\ UNCHANGED buildVars
    /\ UNCHANGED searchVars

\* s.satisfies(s.relevant()) of the last State
Satisfies ==
    /\ pc = "state"
    /\ Len(made) > 0
    /\ out' = [op |-> "satisfies",
               holds |-> satisfies(made[Len(made)], relevant(made[Len(made)]))]
    /\ pc' = "applied"
    /\ UNCHANGED <<argc, argv, initialState, nodes, edges, unused, given, made>>
    /\ UNCHANGED buildVars
    /\ UNCHANGED searchVars

StateNext ==
    \/ Construct
    \/ Merge
    \/ Relevant
    \/ Satisfies

\* the State class driven by its callers' operations
StateSpec == StateInit /\ [][StateNext]_vars

\* the ids of a list of variables
Ids(xs) == {xs[i].id : i \in 1..Len(xs)}

\* the first and the last position of an id in a list of variables
FirstOf(xs, id) == Min({i \in 1..Len(xs) : xs[i].id = id})
LastOf(xs, id) == CHOOSE i \in 1..Len(xs) :
    /\ xs[i].id = id
    /\ \A j \in 1..Len(xs) : xs[j].id = id => j <= i

\* the State constructed last
Made == made[Len(made)]

\* C11: a constructed State holds each id of its arguments exactly once, in
\* the order of the ids' first occurrences, each with the value of its last
\* occurrence.
ConstructorFirstPositionLastValue ==
    Len(made) > 0 =>
        /\ Ids(Made) = Ids(given)
        /\ \A i, j \in 1..Len(Made) : i # j => Made[i].id # Made[j].id
        /\ \A i, j \in 1..Len(Made) :
            i < j => FirstOf(given, Made[i].id) < FirstOf(given, Made[j].id)
        /\ \A i \in 1..Len(Made) : Made[i] = given[LastOf(given, Made[i].id)]

\* an id given twice with different values around another id
ConstructedFromRepeatedId ==
    /\ Len(made) > 0
    /\ Len(given) = 3
    /\ given[1].id = given[3].id
    /\ given[1].value # given[3].value
    /\ given[2].id # given[1].id
    /\ Len(Made) = 2

\* the value a State holds for an id it has
ValueOf(s, id) == s[FindIndex(s, id)].value

\* C12: merging is associative under State.equals, and in the merge of two
\* States every id of the second has the second's value while an id of the
\* first alone keeps the first's value.
MergeAssociativeLastWriteWins ==
    (pc = "applied" /\ out.op = "merge") =>
        /\ out.same
        /\ Ids(out.ab) = Ids(made[1]) \cup Ids(made[2])
        /\ \A id \in Ids(made[2]) : ValueOf(out.ab, id) = ValueOf(made[2], id)
        /\ \A id \in Ids(made[1]) \ Ids(made[2]) :
              ValueOf(out.ab, id) = ValueOf(made[1], id)

\* three States merged where the second overwrites a value of the first, the
\* third one of the second, and the first has an id of its own
MergedOverlappingStates ==
    /\ pc = "applied"
    /\ out.op = "merge"
    /\ \E id \in Ids(made[1]) \cap Ids(made[2]) :
          ValueOf(made[1], id) # ValueOf(made[2], id)
    /\ \E id \in Ids(made[2]) \cap Ids(made[3]) :
          ValueOf(made[2], id) # ValueOf(made[3], id)
    /\ Ids(made[1]) \ Ids(made[2]) # {}

\* C13: every State satisfies its own relevant part.
StateSatisfiesItsRelevantPart ==
    (pc = "applied" /\ out.op = "satisfies") => out.holds

\* a State asked about a relevant part that dropped its first variable and
\* kept its second
SatisfiesAskedAfterDrop ==
    /\ pc = "applied"
    /\ out.op = "satisfies"
    /\ Len(Made) = 2
    /\ ~Made[1].reversible
    /\ Made[1].value = 0
    /\ Made[2].value > 0

\* C14: the relevant part of a relevant part is the relevant part, and the
\* relevant part of a State holds exactly its variables that are reversible
\* or above 0.
RelevantIdempotentAndExact ==
    (pc = "applied" /\ out.op = "relevant") =>
        /\ equals(out.twice, out.once)
        /\ equals(out.once, out.twice)
        /\ Range(out.once) =
              {x \in Range(Made) : x.reversible \/ x.value > 0}
        /\ Len(out.once) = Cardinality(Range(out.once))

\* the relevant part taken of a State with a reversible variable at 0 (kept)
\* and an irreversible variable at 0 (dropped)
RelevantKeptOneDroppedOne ==
    /\ pc = "applied"
    /\ out.op = "relevant"
    /\ \E x \in Range(Made) : x.reversible /\ x.value = 0
    /\ \E x \in Range(Made) : ~x.reversible /\ x.value = 0
    /\ Len(out.once) = 1

\* the pair a turn of the search takes from the frontier
Root == adjacent[Len(adjacent)]

\* the irreversible variables of st that hold a lower value in t
Lowered(st, t) ==
    {x \in Range(st) : ~x.reversible /\ FindIndex(t, x.id) # 0
                       /\ ValueOf(t, x.id) < x.value}

\* C15: in a turn of the search on a pair with an irreversible mechanism, the
\* alternates are the pair's state alone when the state holds the mechanism's
\* variable above 0, and that state and the one advanced to 1 when it holds
\* it at 0; no pair the turn produces holds an irreversible variable below
\* the value of the pair it was derived from.
SearchNeverLowersIrreversible ==
    [][SearchTurn =>
        LET mech == Root.enclave.mechanism
            alts == Alternates(Root)
        IN  /\ (~mech.reversible /\ ValueOf(Root.state, mech.id) > 0) =>
                  /\ Len(alts) = 1
                  /\ alts[1].state = Root.state
            /\ (~mech.reversible /\ ValueOf(Root.state, mech.id) = 0) =>
                  /\ Len(alts) = 2
                  /\ alts[1].state = Root.state
                  /\ ValueOf(alts[2].state, mech.id) = 1
            /\ \A i \in (Len(visited) + 1)..Len(visited') :
                  Lowered(Root.state, visited'[i].state) = {}]_vars

\* the States step 4b can adopt on the way to the candidate diff
Adoptable(diff) ==
    Range(getStatesFromPath(edges, currentState, currentEnclave, diff))

\* C16: no assignment of currentState lowers an irreversible variable, be it
\* the adoption of a reached State, the merge of an activation or the merge
\* of the conditions, and the activation of an irreversible mechanism yields
\* a value above the one currentState holds.
BuilderNeverLowersIrreversible ==
    /\ [](pc = "inner" /\ b < numChanges =>
            \A k \in 1..Len(mutables) :
                /\ \A cs \in Adoptable(mutables[k]) :
                      Lowered(currentState, cs) = {}
                /\ ~mutables[k].mechanism.reversible =>
                      \A cs \in (IF Adoptable(mutables[k]) = {}
                                 THEN {currentState}
                                 ELSE Adoptable(mutables[k])) :
                          \A act \in activated(mutables[k], cs) :
                              act.value > ValueOf(cs, act.id))
    /\ [][Lowered(currentState, currentState') = {}]_vars

\* C17: the candidates a place step starts with are exactly the enclaves
\* whose mechanism is reversible or whose variable currentState still holds
\* at 0.
CandidatesAreTheChangeable ==
    (pc = "inner" /\ b = 0) =>
        Range(mutables) =
            {e \in Range(nodes) :
                e.mechanism.reversible \/ ValueOf(currentState, e.mechanism.id) = 0}

\* label holds exactly the variables of st that are reversible or above 0
IsRelevantPartOf(label, st) ==
    /\ Range(label) = {x \in Range(st) : x.reversible \/ x.value > 0}
    /\ Len(label) = Cardinality(Range(label))
    /\ satisfies(st, label)

\* C18: a doorway committed on the way to an intermediate or to the anchor is
\* labelled, in both directions, with exactly the variables of currentState
\* that are reversible or above 0 at that moment, so currentState satisfies
\* the label.
DoorwayLabelIsRelevantState ==
    [][ /\ (pc = "inner" /\ b < numChanges) =>
             \A i \in (Len(edges) + 1)..Len(edges') :
                 IsRelevantPartOf(edges'[i].label, currentState)
        /\ (pc = "inner" /\ ~(b < numChanges)) =>
             \A i \in (Len(edges) + 1)..(Len(edges') - 2) :
                 IsRelevantPartOf(edges'[i].label, currentState)
      ]_vars

\* a doorway to an intermediate was just committed with a label that left
\* out a variable of currentState
IntermediateDoorwayLabelled ==
    /\ pc = "inner"
    /\ b > 0
    /\ Len(edges) > 2 * (Len(nodes) - 1)
    /\ edges[Len(edges)].src = currentEnclave
    /\ Len(edges[Len(edges)].label) > 0
    /\ Len(edges[Len(edges)].label) < Len(currentState)

\* xs is the beginning of ys
IsPrefix(xs, ys) == Len(xs) <= Len(ys) /\ SubSeq(ys, 1, Len(xs)) = xs

\* C19: every edge record has its mirror record with the same label in the
\* edge list, and a step leaves every node and every edge record committed
\* before it in place and unchanged.
EdgesSymmetricAndGrowing ==
    /\ [](\A i \in 1..Len(edges) :
            \E j \in 1..Len(edges) :
                edges[j] = [src |-> edges[i].dst, dst |-> edges[i].src,
                            label |-> edges[i].label])
    /\ [][IsPrefix(edges, edges') /\ IsPrefix(nodes, nodes')]_vars

\* a graph returned with a gate per later enclave and a further doorway
ReturnedWithFurtherDoorway ==
    /\ pc = "built"
    /\ Len(nodes) > 3
    /\ Len(edges) > 2 * (Len(nodes) - 1)

\* C20: when a place step has ended, the builder's own pair of enclave and
\* State is among the pairs getAccessibleEnclaves finds from the first
\* enclave in the initial State over the graph committed so far.
BuilderPositionAccessible ==
    (pc = "loop" /\ a > 1) =>
        Seen(getAccessibleEnclaves(edges, FirstPair), CurrentPair)

\* C21: in a place step numChanges is at least 1 and at most the number of
\* candidates the step started with, the intermediates activated so far are
\* pairwise distinct enclaves taken out of the candidates, and every random
\* choice, of the anchor and of an intermediate, has a non-empty list to
\* choose from.
CountAndChoicesWellFormed ==
    /\ (pc = "loop" /\ a < Len(initialState)) => Len(nodes) > 0
    /\ pc = "inner" =>
        /\ numChanges >= 1
        /\ numChanges <= Len(mutables) + b
        /\ b <= numChanges
        /\ b < numChanges => Len(mutables) > 0
        /\ Len(conditions) = b
        /\ \A i, j \in 1..Len(conditions) :
              i # j => conditions[i].id # conditions[j].id
        /\ \A i \in 1..Len(conditions) :
              /\ \E e \in Range(nodes) : e.mechanism.id = conditions[i].id
              /\ \A e \in Range(mutables) : e.mechanism.id # conditions[i].id

\* a place step that drew the largest count three candidates allow and has
\* activated both intermediates
LargestCountActivated ==
    /\ pc = "inner"
    /\ numChanges = 2
    /\ b = 2
    /\ Len(mutables) = 1

====
